---- MODULE Spec2Model ----
(***************************************************************************)
(* The one-time-passcode service of E-consult                              *)
(* (src/src/integrations/otp/otpService.ts): a process-wide object         *)
(* otpStorage keyed by email, generateAndSendOtp (store, then await the    *)
(* gateway) and verifyOtp.  The JavaScript run-to-completion rule makes    *)
(* the synchronous part of every call one atomic step; the only await is   *)
(* the gateway request of sendOtp, which settles in a later step.          *)
(***************************************************************************)
EXTENDS Integers, Sequences, FiniteSets, Bags

VARIABLES
    otpStorage,   \* own properties of the otpStorage object: email -> [otp, expiry]
    now,          \* Date.now(), in milliseconds
    calls,        \* the most recent calls of the service, oldest first, each with
                  \* its outcome so far: [op, email, otp, result]
    pending,      \* bag of sendOtp frames [email, otp] still awaiting the gateway
                  \* whose call is no longer listed in calls
    stored,       \* per email: calls of generateAndSendOtp that stored a record
    accepted,     \* per email: calls of verifyOtp that returned true
    tasks,        \* calls followed statement by statement: task -> its frame
                  \* [op, pc, email, otp, expiry, record, after, sent, result]
    twin,         \* the service with a sweeper of expired records added, given
                  \* the same calls: [storage, result of its last call]
    response,     \* the last response of the request handler, with the request
                  \* it answers: [method, email, otp, status, allow, key, value]
    guard,        \* the route shown by App: [path, loading, user, view], view
                  \* being what AuthGuard or PublicRoute returned at the last render
    page,         \* ConsultationDetail and the comments posted through it:
                  \* [mounted, expires, shown, text, posted]
    thread        \* the comments of the consultation shown, in the backend and in
                  \* ConsultationDetail: [server, active, fetch, snapshot,
                  \* notified, failed, comments]

vars == <<otpStorage, now, calls, pending, stored, accepted, tasks, twin, response,
          guard, page, thread>>

\* the variables of the web application
ui == <<guard, page, thread>>

\* the variables that one specification each uses
aside == <<tasks, twin, response, guard, page, thread>>

----------------------------------------------------------------------------
(* Bounds of the model *)

\* Math.random() is sampled at k / RandomResolution, k \in 0 .. RandomResolution-1
RandomResolution == 2
\* the clock reaches MaxEpoch validity windows (and the millisecond after each)
MaxEpoch == 1
\* gateway requests in flight at once
MaxPending == 2
\* calls of generateAndSendOtp that the counters stored / accepted follow
MaxIssues == 2
\* codes at each end of the range that the samples of Math.random() reach
MaxSample == 60

----------------------------------------------------------------------------
(* Program constants and values *)

OTP_EXPIRY_TIME == 5 * 60 * 1000

GmailSuffix == "@gmail.com"

\* the JavaScript value undefined
undefined == "undefined"

\* messages of the Errors thrown by the service
InvalidSubjectError == "Only Gmail addresses are allowed."
DeliveryError == "Failed to send OTP. Please try again."
NotFoundError == "No OTP found for this email."
ExpiredError == "OTP has expired."
MismatchError == "Invalid OTP."

\* subjects the callers use: two allowed ones, one of another domain, and one
\* that names a property every JavaScript object inherits
Emails == {"a@gmail.com", "b@gmail.com", "user@example.com", "constructor"}

\* property names that {} inherits from Object.prototype
ObjectPrototypeKeys ==
    {"constructor", "toString", "valueOf", "hasOwnProperty", "isPrototypeOf",
     "propertyIsEnumerable", "toLocaleString", "__proto__"}

\* the value verifyOtp returns
Success == "true"

\* states of the promise of a generateAndSendOtp call that passed the test
Pending == "pending"
Resolved == "resolved"

\* what otpStorage[k] yields: a stored record; for an inherited k an object
\* (truthy) that has neither an otp nor an expiry property; else undefined
Own(record) == [kind |-> "own", otp |-> record.otp, expiry |-> record.expiry]
Inherited == [kind |-> "inherited"]
Missing == [kind |-> "undefined"]

\* instants the clock is read at: the multiples of the validity window and
\* the millisecond after each
ClockValues == {k * OTP_EXPIRY_TIME + j : k \in 0..MaxEpoch, j \in {0, 1}}

RandomValues == 0 .. (RandomResolution - 1)

\* values of Math.random() in units of 1 / (900000 * RandomResolution): the
\* lowest and the highest ones, the largest value below 1 included
RandomSamples ==
    LET units == 900000 * RandomResolution
        low == 0 .. ((MaxSample + 1) * RandomResolution - 1)
    IN  low \cup {units - 1 - n : n \in low}

----------------------------------------------------------------------------
(* Pure helpers *)

Digit == <<"0", "1", "2", "3", "4", "5", "6", "7", "8", "9">>

\* Number.prototype.toString of a non-negative integer
RECURSIVE toString(_)
toString(n) ==
    IF n < 10 THEN Digit[n + 1] ELSE toString(n \div 10) \o Digit[(n % 10) + 1]

\* Math.floor of the rational num / den
floor(num, den) == num \div den

\* generateOtp with Math.round in place of Math.floor
generateOtpRounds(n) ==
    toString(floor(2 * (100000 * RandomResolution + n) + RandomResolution,
                   2 * RandomResolution))

\* Math.floor(100000 + Math.random() * 900000).toString(), with
\* Math.random() = n / (900000 * RandomResolution), so that
\* Math.random() * 900000 = n / RandomResolution
generateOtpFrom(n) ==
    toString(floor(100000 * RandomResolution + n, RandomResolution))

\* generateOtp() with Math.random() = k / RandomResolution
generateOtp(k) == generateOtpFrom(k * 900000)

\* String.prototype.endsWith
endsWith(s, suffix) ==
    /\ Len(s) >= Len(suffix)
    /\ SubSeq(s, Len(s) - Len(suffix) + 1, Len(s)) = suffix

\* otpStorage[email]: own property, else inherited property, else undefined
Lookup(storage, email) ==
    IF email \in DOMAIN storage THEN Own(storage[email])
    ELSE IF email \in ObjectPrototypeKeys THEN Inherited
    ELSE Missing

\* otpStorage[email] = record
Store(storage, email, record) ==
    [e \in (DOMAIN storage) \cup {email} |-> IF e = email THEN record ELSE storage[e]]

\* delete otpStorage[email]
Delete(storage, email) ==
    [e \in (DOMAIN storage) \ {email} |-> storage[e]]

Codes == {generateOtp(k) : k \in RandomValues}

\* codes the callers try: every code the generator can produce, and "000000"
Candidates == Codes \cup {"000000"}

----------------------------------------------------------------------------
(* The service functions, as functions of the state they read *)

\* generateAndSendOtp without the test of the address
generateAndSendOtpAnyDomain(storage, email, k, t) ==
    LET otp == generateOtp(k)
        expiry == t + OTP_EXPIRY_TIME
    IN  [result |-> Pending,
         storage |-> Store(storage, email, [otp |-> otp, expiry |-> expiry]),
         otp |-> otp,
         sends |-> {[email |-> email, otp |-> otp]}]

\* generateAndSendOtp that stores only when the email has no record yet
generateAndSendOtpKeepsStored(storage, email, k, t) ==
    IF ~endsWith(email, GmailSuffix)
    THEN [result |-> InvalidSubjectError, storage |-> storage, otp |-> undefined,
          sends |-> {}]
    ELSE LET otp == generateOtp(k)
             expiry == t + OTP_EXPIRY_TIME
         IN  [result |-> Pending,
              storage |-> IF email \in DOMAIN storage THEN storage
                          ELSE Store(storage, email, [otp |-> otp, expiry |-> expiry]),
              otp |-> otp,
              sends |-> {[email |-> email, otp |-> otp]}]

\* generateAndSendOtp that keeps the expiry of the record it replaces
generateAndSendOtpKeepsExpiry(storage, email, k, t) ==
    IF ~endsWith(email, GmailSuffix)
    THEN [result |-> InvalidSubjectError, storage |-> storage, otp |-> undefined,
          sends |-> {}]
    ELSE LET otp == generateOtp(k)
             expiry == IF email \in DOMAIN storage THEN storage[email].expiry
                       ELSE t + OTP_EXPIRY_TIME
         IN  [result |-> Pending,
              storage |-> Store(storage, email, [otp |-> otp, expiry |-> expiry]),
              otp |-> otp,
              sends |-> {[email |-> email, otp |-> otp]}]

\* synchronous part of generateAndSendOtp(email) at time t with Math.random() = k:
\* [result, storage, otp, sends]; sends holds the sendOtp frame started, if any
generateAndSendOtp(storage, email, k, t) ==
    IF ~endsWith(email, GmailSuffix)
    THEN [result |-> InvalidSubjectError, storage |-> storage, otp |-> undefined,
          sends |-> {}]
    ELSE LET otp == generateOtp(k)
             expiry == t + OTP_EXPIRY_TIME
         IN  [result |-> Pending,
              storage |-> Store(storage, email, [otp |-> otp, expiry |-> expiry]),
              otp |-> otp,
              sends |-> {[email |-> email, otp |-> otp]}]

\* !record
Falsy(record) == record.kind = "undefined"

\* the expiry test with the end of the window left out of it
ExpiryAtOrBefore(record, t) == record.kind = "own" /\ record.expiry <= t

\* the expiry test with the comparison turned around
ExpiryAfter(record, t) == record.kind = "own" /\ record.expiry > t

\* record.expiry < t; an absent expiry is undefined, and undefined < t is false
ExpiryBefore(record, t) == record.kind = "own" /\ record.expiry < t

\* record.otp !== otp, otp a string; an absent otp is undefined
OtpDiffers(record, otp) == record.kind # "own" \/ record.otp # otp

\* verifyOtp that empties the whole mapping when it accepts a code
verifyOtpClearsMapping(storage, email, otp, t) ==
    LET record == Lookup(storage, email) IN
    IF Falsy(record) THEN [result |-> NotFoundError, storage |-> storage]
    ELSE IF ExpiryBefore(record, t)
    THEN [result |-> ExpiredError, storage |-> Delete(storage, email)]
    ELSE IF OtpDiffers(record, otp) THEN [result |-> MismatchError, storage |-> storage]
    ELSE [result |-> Success, storage |-> [e \in {} |-> storage[e]]]

\* verifyOtp that leaves the record in place when the code matches
verifyOtpKeepsAccepted(storage, email, otp, t) ==
    LET record == Lookup(storage, email) IN
    IF Falsy(record)
    THEN [result |-> NotFoundError, storage |-> storage]
    ELSE IF ExpiryBefore(record, t)
    THEN [result |-> ExpiredError, storage |-> Delete(storage, email)]
    ELSE IF OtpDiffers(record, otp)
    THEN [result |-> MismatchError, storage |-> storage]
    ELSE [result |-> Success, storage |-> storage]

\* verifyOtp that compares the codes before it looks at the expiry
verifyOtpComparesFirst(storage, email, otp, t) ==
    LET record == Lookup(storage, email) IN
    IF Falsy(record)
    THEN [result |-> NotFoundError, storage |-> storage]
    ELSE IF OtpDiffers(record, otp)
    THEN [result |-> MismatchError, storage |-> storage]
    ELSE IF ExpiryBefore(record, t)
    THEN [result |-> ExpiredError, storage |-> Delete(storage, email)]
    ELSE [result |-> Success, storage |-> Delete(storage, email)]

\* verifyOtp that consumes the record on a wrong code as well
verifyOtpDiscardsMismatch(storage, email, otp, t) ==
    LET record == Lookup(storage, email) IN
    IF Falsy(record)
    THEN [result |-> NotFoundError, storage |-> storage]
    ELSE IF ExpiryBefore(record, t)
    THEN [result |-> ExpiredError, storage |-> Delete(storage, email)]
    ELSE IF OtpDiffers(record, otp)
    THEN [result |-> MismatchError, storage |-> Delete(storage, email)]
    ELSE [result |-> Success, storage |-> Delete(storage, email)]

\* verifyOtp that leaves an expired record in place
verifyOtpKeepsExpired(storage, email, otp, t) ==
    LET record == Lookup(storage, email) IN
    IF Falsy(record)
    THEN [result |-> NotFoundError, storage |-> storage]
    ELSE IF ExpiryBefore(record, t)
    THEN [result |-> ExpiredError, storage |-> storage]
    ELSE IF OtpDiffers(record, otp)
    THEN [result |-> MismatchError, storage |-> storage]
    ELSE [result |-> Success, storage |-> Delete(storage, email)]

\* verifyOtp(email, otp) at time t: [result, storage]
verifyOtp(storage, email, otp, t) ==
    LET record == Lookup(storage, email) IN
    IF Falsy(record)
    THEN [result |-> NotFoundError, storage |-> storage]
    ELSE IF ExpiryBefore(record, t)
    THEN [result |-> ExpiredError, storage |-> Delete(storage, email)]
    ELSE IF OtpDiffers(record, otp)
    THEN [result |-> MismatchError, storage |-> storage]
    ELSE [result |-> Success, storage |-> Delete(storage, email)]

\* sendOtp's await: the gateway request resolves, or rejects and the catch
\* block rethrows
sendOtpOutcome(gatewayOk) ==
    IF gatewayOk THEN Resolved ELSE DeliveryError

\* generateAndSendOtp that takes its record back when the delivery failed
generateAndSendOtpRollsBack(storage, email, otp, gatewayOk) ==
    [result |-> sendOtpOutcome(gatewayOk),
     storage |-> IF gatewayOk THEN storage ELSE Delete(storage, email)]

\* generateAndSendOtp after its await of sendOtp(email, otp): nothing follows
\* the await, so the call settles as sendOtp did and the storage is as it was
generateAndSendOtpSettle(storage, email, otp, gatewayOk) ==
    [result |-> sendOtpOutcome(gatewayOk), storage |-> storage]

----------------------------------------------------------------------------
(* State machine *)

IssueOp == "generateAndSendOtp"
VerifyOp == "verifyOtp"

NoCall == [op |-> "none", email |-> undefined, otp |-> undefined, result |-> undefined]

\* the calls followed statement by statement: two of verifyOtp, one of
\* generateAndSendOtp
VerifyTasks == {"verify1", "verify2"}
IssueTasks == {"issue"}
TaskIds == VerifyTasks \cup IssueTasks

\* the frame of a task whose call has not started
Idle(task) ==
    [op |-> IF task \in VerifyTasks THEN VerifyOp ELSE IssueOp, pc |-> "idle",
     email |-> undefined, otp |-> undefined, expiry |-> 0, record |-> Missing,
     after |-> FALSE, sent |-> 0, result |-> undefined]

\* the routes of App that are wrapped in AuthGuard, and the one in PublicRoute
Protected == {"/feed", "/create", "/consultation/:id", "/my-consultations", "/profile"}
Paths == Protected \cup {"/auth"}
DetailPath == "/consultation/:id"

\* useAuth().user when nobody is signed in
null == "null"
Users == {"u1"}

\* App before the first render, ConsultationDetail not mounted, no comment yet
NoView == [path |-> "/auth", loading |-> TRUE, user |-> null, view |-> "spinner"]
NoInsert == [user |-> null, at |-> 0, expires |-> 0]
Unmounted(posted) ==
    [mounted |-> FALSE, expires |-> 0, shown |-> FALSE, text |-> FALSE, posted |-> posted]
NoThread ==
    [server |-> <<>>, active |-> FALSE, fetch |-> "idle", snapshot |-> <<>>,
     notified |-> {}, failed |-> {}, comments |-> <<>>]

\* no response sent yet
NoResponse ==
    [method |-> undefined, email |-> undefined, otp |-> undefined, status |-> 0,
     allow |-> <<>>, key |-> undefined, value |-> undefined]

\* the i-th most recent call listed
Recent(i) == IF Len(calls) >= i THEN calls[Len(calls) - i + 1] ELSE NoCall
last == Recent(1)
prev == Recent(2)

\* the sendOtp frame a listed call is suspended in, if any
FrameOf(call) ==
    IF call.op = IssueOp /\ call.result = Pending
    THEN SetToBag({[email |-> call.email, otp |-> call.otp]})
    ELSE EmptyBag

RECURSIVE FramesOf(_)
FramesOf(cs) == IF cs = <<>> THEN EmptyBag ELSE FrameOf(Head(cs)) (+) FramesOf(Tail(cs))

\* gateway requests in flight
InFlight == BagCardinality(pending (+) FramesOf(calls))

\* list a new call, keeping the depth most recent ones
Record(call, depth) ==
    LET all == Append(calls, call)
        drop == IF Len(all) > depth THEN Len(all) - depth ELSE 0
    IN  /\ calls' = SubSeq(all, drop + 1, Len(all))
        /\ pending' = pending (+) FramesOf(SubSeq(all, 1, drop))

RECURSIVE Total(_, _)
Total(f, S) ==
    IF S = {} THEN 0 ELSE LET e == CHOOSE x \in S : TRUE IN f[e] + Total(f, S \ {e})

Init ==
    /\ otpStorage = [e \in {} |-> [otp |-> undefined, expiry |-> 0]]
    /\ now = 0
    /\ calls = <<>>
    /\ pending = EmptyBag
    /\ stored = [e \in Emails |-> 0]
    /\ accepted = [e \in Emails |-> 0]
    /\ tasks = [task \in TaskIds |-> Idle(task)]
    /\ twin = [storage |-> [e \in {} |-> [otp |-> undefined, expiry |-> 0]],
               result |-> undefined]
    /\ response = NoResponse
    /\ guard = NoView
    /\ page = Unmounted(NoInsert)
    /\ thread = NoThread

\* a caller invokes generateAndSendOtp(email); it runs up to the await of sendOtp
Issue(email, k, depth, counting) ==
    LET r == generateAndSendOtp(otpStorage, email, k, now) IN
    /\ r.sends # {} => InFlight < MaxPending
    /\ (counting /\ r.sends # {}) => Total(stored, Emails) < MaxIssues
    /\ otpStorage' = r.storage
    /\ Record([op |-> IssueOp, email |-> email, otp |-> r.otp, result |-> r.result], depth)
    /\ stored' = IF counting /\ r.sends # {} THEN [stored EXCEPT ![email] = @ + 1]
                 ELSE stored
    /\ UNCHANGED <<now, accepted>>

\* the gateway answers the request of a listed call; the call settles
SettleListed(i, gatewayOk) ==
    /\ i \in 1..Len(calls)
    /\ calls[i].op = IssueOp
    /\ calls[i].result = Pending
    /\ LET r == generateAndSendOtpSettle(otpStorage, calls[i].email, calls[i].otp, gatewayOk)
       IN  /\ otpStorage' = r.storage
           /\ calls' = [calls EXCEPT ![i].result = r.result]
    /\ UNCHANGED <<now, pending, stored, accepted>>

\* the gateway answers the request of a call no longer listed
SettleOlder(frame, gatewayOk) ==
    /\ BagIn(frame, pending)
    /\ LET r == generateAndSendOtpSettle(otpStorage, frame.email, frame.otp, gatewayOk)
       IN  otpStorage' = r.storage
    /\ pending' = pending (-) SetToBag({frame})
    /\ UNCHANGED <<now, calls, stored, accepted>>

\* a caller invokes verifyOtp(email, otp)
Verify(email, otp, depth, counting) ==
    LET r == verifyOtp(otpStorage, email, otp, now) IN
    /\ otpStorage' = r.storage
    /\ Record([op |-> VerifyOp, email |-> email, otp |-> otp, result |-> r.result], depth)
    /\ accepted' = IF counting /\ r.result = Success
                   THEN [accepted EXCEPT ![email] = @ + 1]
                   ELSE accepted
    /\ UNCHANGED <<now, stored>>

\* time passes and the records whose expiry has passed go with it
TickSweeps ==
    /\ \E t \in ClockValues :
            /\ t > now
            /\ now' = t
            /\ otpStorage' = [e \in {x \in DOMAIN otpStorage : otpStorage[x].expiry >= t}
                                |-> otpStorage[e]]
    /\ UNCHANGED <<calls, pending, stored, accepted>>

\* time passes
Tick ==
    /\ \E t \in ClockValues : t > now /\ now' = t
    /\ UNCHANGED <<otpStorage, calls, pending, stored, accepted>>

\* the service used for one allowed subject and the subjects that are not,
\* with its last two calls listed
Callers == {"a@gmail.com", "user@example.com", "constructor"}
IssueCall(email, k) == Issue(email, k, 2, FALSE)
VerifyCall(email, otp) == Verify(email, otp, 2, FALSE)

Next ==
    \/ \E email \in Callers, k \in RandomValues : IssueCall(email, k) /\ UNCHANGED aside
    \/ \E i \in 1..Len(calls), gatewayOk \in BOOLEAN : SettleListed(i, gatewayOk) /\ UNCHANGED aside
    \/ \E frame \in BagToSet(pending), gatewayOk \in BOOLEAN : SettleOlder(frame, gatewayOk) /\ UNCHANGED aside
    \/ \E email \in Callers, otp \in Candidates : VerifyCall(email, otp) /\ UNCHANGED aside
    \/ Tick /\ UNCHANGED aside

Spec == Init /\ [][Next]_vars

\* the service used for every subject, with the counters running and no call listed
NextCount ==
    \/ \E email \in Emails, k \in RandomValues : Issue(email, k, 0, TRUE) /\ UNCHANGED aside
    \/ \E frame \in BagToSet(pending), gatewayOk \in BOOLEAN : SettleOlder(frame, gatewayOk) /\ UNCHANGED aside
    \/ \E email \in Emails, otp \in Candidates : Verify(email, otp, 0, TRUE) /\ UNCHANGED aside
    \/ Tick /\ UNCHANGED aside

SpecCount == Init /\ [][NextCount]_vars

\* the service used for one allowed subject, with its last three calls listed
SeqIssue(email, k) == Issue(email, k, 3, FALSE)
SeqVerify(email, otp) == Verify(email, otp, 3, FALSE)
prev2 == Recent(3)

NextSeq ==
    \/ \E k \in RandomValues : SeqIssue("a@gmail.com", k) /\ UNCHANGED aside
    \/ \E i \in 1..Len(calls), gatewayOk \in BOOLEAN : SettleListed(i, gatewayOk) /\ UNCHANGED aside
    \/ \E frame \in BagToSet(pending), gatewayOk \in BOOLEAN : SettleOlder(frame, gatewayOk) /\ UNCHANGED aside
    \/ \E otp \in Candidates : SeqVerify("a@gmail.com", otp) /\ UNCHANGED aside
    \/ Tick /\ UNCHANGED aside

SpecSeq == Init /\ [][NextSeq]_vars

\* generateOtp() called on its own, with the last call listed
GenerateOp == "generateOtp"

Generate(n) ==
    /\ Record([op |-> GenerateOp, email |-> undefined, otp |-> generateOtpFrom(n),
                result |-> Resolved], 1)
    /\ UNCHANGED <<otpStorage, now, stored, accepted>>

NextOtp == \E n \in RandomSamples : Generate(n) /\ UNCHANGED aside

SpecOtp == Init /\ [][NextOtp]_vars

\* the service used for two allowed subjects, with its last call listed
Subjects == {"a@gmail.com", "b@gmail.com"}
PairIssue(email, k) == Issue(email, k, 1, FALSE)
PairVerify(email, otp) == Verify(email, otp, 1, FALSE)

NextPair ==
    \/ \E email \in Subjects, k \in RandomValues : PairIssue(email, k) /\ UNCHANGED aside
    \/ \E i \in 1..Len(calls), gatewayOk \in BOOLEAN : SettleListed(i, gatewayOk) /\ UNCHANGED aside
    \/ \E frame \in BagToSet(pending), gatewayOk \in BOOLEAN : SettleOlder(frame, gatewayOk) /\ UNCHANGED aside
    \/ \E email \in Subjects, otp \in Candidates : PairVerify(email, otp) /\ UNCHANGED aside
    \/ Tick /\ UNCHANGED aside

SpecPair == Init /\ [][NextPair]_vars

----------------------------------------------------------------------------
(* The calls followed statement by statement.  A task runs its statements  *)
(* one per step; another task runs only while every started task is        *)
(* parked at an await.                                                     *)

\* every statement of either function lets other calls run
YieldsAtEveryStatement(op, pc) == TRUE

\* the statements at which a call gives up the thread: the await of sendOtp in
\* generateAndSendOtp; verifyOtp is not async and has none
Yields(op, pc) == op = IssueOp /\ pc = "awaiting"

Parked(frame) == frame.pc \in {"idle", "done"} \/ Yields(frame.op, frame.pc)

Runnable(task) == \A other \in TaskIds \ {task} : Parked(tasks[other])

Stored(frame) == frame.op = IssueOp /\ frame.pc \in {"stored", "awaiting", "done"}
                    /\ frame.result # InvalidSubjectError

\* const record = otpStorage[email]
VerifyLookup(task, email, otp) ==
    /\ task \in VerifyTasks /\ tasks[task].pc = "idle" /\ Runnable(task)
    /\ tasks' = [tasks EXCEPT ![task] =
                    [@ EXCEPT !.pc = "looked", !.email = email, !.otp = otp,
                              !.record = Lookup(otpStorage, email),
                              !.after = \E i \in IssueTasks : Stored(tasks[i])]]
    /\ UNCHANGED <<otpStorage, now, calls, pending, stored, accepted>>

\* the three tests of the record read
VerifyTest(task) ==
    LET frame == tasks[task] IN
    /\ task \in VerifyTasks /\ frame.pc = "looked" /\ Runnable(task)
    /\ tasks' = [tasks EXCEPT ![task] =
                    IF Falsy(frame.record)
                    THEN [@ EXCEPT !.pc = "done", !.result = NotFoundError]
                    ELSE IF ExpiryBefore(frame.record, now)
                    THEN [@ EXCEPT !.pc = "expired"]
                    ELSE IF OtpDiffers(frame.record, frame.otp)
                    THEN [@ EXCEPT !.pc = "done", !.result = MismatchError]
                    ELSE [@ EXCEPT !.pc = "matched"]]
    /\ UNCHANGED <<otpStorage, now, calls, pending, stored, accepted>>

\* delete otpStorage[email], then the throw of 'OTP has expired.' or return true
VerifyDelete(task) ==
    LET frame == tasks[task] IN
    /\ task \in VerifyTasks /\ frame.pc \in {"expired", "matched"} /\ Runnable(task)
    /\ otpStorage' = Delete(otpStorage, frame.email)
    /\ tasks' = [tasks EXCEPT ![task] =
                    [@ EXCEPT !.pc = "done",
                              !.result = IF frame.pc = "expired" THEN ExpiredError
                                         ELSE Success]]
    /\ UNCHANGED <<now, calls, pending, stored, accepted>>

\* the test of the address, generateOtp() and the expiry
IssueGenerate(task, email, k) ==
    /\ task \in IssueTasks /\ tasks[task].pc = "idle" /\ Runnable(task)
    /\ tasks' = [tasks EXCEPT ![task] =
                    IF ~endsWith(email, GmailSuffix)
                    THEN [@ EXCEPT !.pc = "done", !.email = email,
                                   !.result = InvalidSubjectError]
                    ELSE [@ EXCEPT !.pc = "generated", !.email = email,
                                   !.otp = generateOtp(k),
                                   !.expiry = now + OTP_EXPIRY_TIME]]
    /\ UNCHANGED <<otpStorage, now, calls, pending, stored, accepted>>

\* generateAndSendOtp that goes on to sendOtp without having stored the record
IssueStoreSkipped(task) ==
    /\ task \in IssueTasks /\ tasks[task].pc = "generated" /\ Runnable(task)
    /\ tasks' = [tasks EXCEPT ![task] = [@ EXCEPT !.pc = "stored"]]
    /\ UNCHANGED <<otpStorage, now, calls, pending, stored, accepted>>

\* otpStorage[email] = { otp, expiry }
IssueStore(task) ==
    LET frame == tasks[task] IN
    /\ task \in IssueTasks /\ frame.pc = "generated" /\ Runnable(task)
    /\ otpStorage' = Store(otpStorage, frame.email,
                           [otp |-> frame.otp, expiry |-> frame.expiry])
    /\ tasks' = [tasks EXCEPT ![task] = [@ EXCEPT !.pc = "stored"]]
    /\ UNCHANGED <<now, calls, pending, stored, accepted>>

\* const message = `Your OTP is ${otp}. It is valid for 5 minutes.`
Message(otp) == "Your OTP is " \o otp \o ". It is valid for 5 minutes."

\* the body that sendOtp(email, otp) posts to the gateway
GatewayRequest(frame) == [numbers |-> frame.email, message |-> Message(frame.otp)]

\* await sendOtp(email, otp): sendOtp runs up to its await of axios.post
IssueSend(task) ==
    LET frame == tasks[task] IN
    /\ task \in IssueTasks /\ frame.pc = "stored" /\ Runnable(task)
    /\ pending' = pending (+) SetToBag({[email |-> frame.email, otp |-> frame.otp]})
    /\ tasks' = [tasks EXCEPT ![task] =
                    [@ EXCEPT !.pc = "awaiting", !.sent = @ + 1, !.result = Pending]]
    /\ UNCHANGED <<otpStorage, now, calls, stored, accepted>>

\* a call that sends again when the gateway has failed
IssueSettleRetries(task, gatewayOk) ==
    LET frame == tasks[task] IN
    /\ task \in IssueTasks /\ frame.pc = "awaiting" /\ Runnable(task)
    /\ pending' = pending (-) SetToBag({[email |-> frame.email, otp |-> frame.otp]})
    /\ tasks' = [tasks EXCEPT ![task] =
                    IF gatewayOk \/ frame.sent > 1
                    THEN [@ EXCEPT !.pc = "done", !.result = sendOtpOutcome(gatewayOk)]
                    ELSE [@ EXCEPT !.pc = "stored"]]
    /\ UNCHANGED <<otpStorage, now, calls, stored, accepted>>

\* the gateway answers; sendOtp returns or throws, and the call settles as it did
IssueSettle(task, gatewayOk) ==
    LET frame == tasks[task] IN
    /\ task \in IssueTasks /\ frame.pc = "awaiting" /\ Runnable(task)
    /\ pending' = pending (-) SetToBag({[email |-> frame.email, otp |-> frame.otp]})
    /\ tasks' = [tasks EXCEPT ![task] =
                    [@ EXCEPT !.pc = "done", !.result = sendOtpOutcome(gatewayOk)]]
    /\ UNCHANGED <<otpStorage, now, calls, stored, accepted>>

\* time passes between statements of no call: each function reads Date.now() once
TickParked ==
    /\ \A task \in TaskIds : Parked(tasks[task])
    /\ Tick
    /\ UNCHANGED tasks

Requesters == {"a@gmail.com", "user@example.com"}

NextStatements ==
    \/ \E task \in VerifyTasks, otp \in Candidates : VerifyLookup(task, "a@gmail.com", otp) /\ UNCHANGED <<twin, response, guard, page, thread>>
    \/ \E task \in VerifyTasks : VerifyTest(task) /\ UNCHANGED <<twin, response, guard, page, thread>>
    \/ \E task \in VerifyTasks : VerifyDelete(task) /\ UNCHANGED <<twin, response, guard, page, thread>>
    \/ \E task \in IssueTasks, email \in Requesters, k \in RandomValues :
            IssueGenerate(task, email, k) /\ UNCHANGED <<twin, response, guard, page, thread>>
    \/ \E task \in IssueTasks : IssueStore(task) /\ UNCHANGED <<twin, response, guard, page, thread>>
    \/ \E task \in IssueTasks : IssueSend(task) /\ UNCHANGED <<twin, response, guard, page, thread>>
    \/ \E task \in IssueTasks, gatewayOk \in BOOLEAN : IssueSettle(task, gatewayOk) /\ UNCHANGED <<twin, response, guard, page, thread>>
    \/ TickParked /\ UNCHANGED <<twin, response, guard, page, thread>>

SpecStatements == Init /\ [][NextStatements]_vars

----------------------------------------------------------------------------
(* The service next to a twin of it that has a background sweeper: both    *)
(* get the same calls, the same gateway answers and the same clock.        *)

SweptIssue(email, k) ==
    LET r == generateAndSendOtp(twin.storage, email, k, now) IN
    /\ Issue(email, k, 1, FALSE)
    /\ twin' = [storage |-> r.storage, result |-> r.result]

SweptVerify(email, otp) ==
    LET r == verifyOtp(twin.storage, email, otp, now) IN
    /\ Verify(email, otp, 1, FALSE)
    /\ twin' = [storage |-> r.storage, result |-> r.result]

SweptSettleListed(i, gatewayOk) ==
    /\ SettleListed(i, gatewayOk)
    /\ LET r == generateAndSendOtpSettle(twin.storage, calls[i].email, calls[i].otp,
                                         gatewayOk)
       IN  twin' = [storage |-> r.storage,
                    result |-> IF i = Len(calls) THEN r.result ELSE twin.result]

SweptSettleOlder(frame, gatewayOk) ==
    /\ SettleOlder(frame, gatewayOk)
    /\ LET r == generateAndSendOtpSettle(twin.storage, frame.email, frame.otp, gatewayOk)
       IN  twin' = [twin EXCEPT !.storage = r.storage]

\* the sweeper runs in the twin: it removes every record whose expiry has passed
Sweep ==
    LET kept == {e \in DOMAIN twin.storage : ~ExpiryBefore(Own(twin.storage[e]), now)} IN
    /\ kept # DOMAIN twin.storage
    /\ twin' = [twin EXCEPT !.storage = [e \in kept |-> twin.storage[e]]]
    /\ UNCHANGED <<otpStorage, now, calls, pending, stored, accepted>>

NextSweeper ==
    \/ \E email \in Requesters, k \in RandomValues : SweptIssue(email, k) /\ UNCHANGED <<tasks, response, guard, page, thread>>
    \/ \E i \in 1..Len(calls), gatewayOk \in BOOLEAN : SweptSettleListed(i, gatewayOk) /\ UNCHANGED <<tasks, response, guard, page, thread>>
    \/ \E frame \in BagToSet(pending), gatewayOk \in BOOLEAN : SweptSettleOlder(frame, gatewayOk) /\ UNCHANGED <<tasks, response, guard, page, thread>>
    \/ \E email \in Requesters, otp \in Candidates : SweptVerify(email, otp) /\ UNCHANGED <<tasks, response, guard, page, thread>>
    \/ Sweep /\ UNCHANGED <<tasks, response, guard, page, thread>>
    \/ Tick /\ UNCHANGED <<tasks, twin, response, guard, page, thread>>

SpecSweeper == Init /\ [][NextSweeper]_vars

----------------------------------------------------------------------------
(* The request handler of src/src/pages/api/otp.ts in front of the         *)
(* service.  No call is listed: response holds the request last handled    *)
(* and the response to it, status 0 while the handler awaits the gateway.  *)

Methods == {"POST", "GET"}

\* values of req.body.email and req.body.otp; undefined is an absent field
BodyEmails == Requesters \cup {undefined}
BodyOtps == Candidates \cup {undefined, ""}

\* JavaScript truthiness of a body field
Truthy(value) == value \notin {undefined, ""}

RequiredError == "Email is required."
Acknowledgement == "OTP sent successfully."
NotAllowedError(method) == "Method " \o method \o " not allowed."

\* a handler whose catch answers every error with one generic message
JsonGenericError(method, email, otp, status, key, value) ==
    [method |-> method, email |-> email, otp |-> otp, status |-> status,
     allow |-> <<>>, key |-> key,
     value |-> IF status = 500 THEN "Internal Server Error" ELSE value]

\* res.status(status).json({ key: value }) in answer to a request
Json(method, email, otp, status, key, value) ==
    [method |-> method, email |-> email, otp |-> otp, status |-> status,
     allow |-> <<>>, key |-> key, value |-> value]

\* the handler suspended at await generateAndSendOtp(email)
Awaiting(method, email, otp) ==
    Json(method, email, otp, 0, undefined, undefined)

\* the branches of the handler with the tests on the method left out
routeAnyMethod(method, email, otp) ==
    IF ~Truthy(email) THEN "required"
    ELSE IF Truthy(otp) THEN "verify"
    ELSE "issue"

\* the branches of the handler with the test of otp turned around
routeIssuesOnCode(method, email, otp) ==
    IF method # "POST" THEN "notAllowed"
    ELSE IF ~Truthy(email) THEN "required"
    ELSE IF Truthy(otp) THEN "issue"
    ELSE "verify"

\* the branch the handler takes: method === 'POST', !email, otp
route(method, email, otp) ==
    IF method # "POST" THEN "notAllowed"
    ELSE IF ~Truthy(email) THEN "required"
    ELSE IF Truthy(otp) THEN "verify"
    ELSE "issue"

\* handler(req, res) up to its return or its await
Handle(method, email, otp) ==
    LET branch == route(method, email, otp) IN
    \/ /\ branch = "notAllowed"
       /\ response' = [Json(method, email, otp, 405, "error", NotAllowedError(method))
                           EXCEPT !.allow = <<"POST">>]
       /\ UNCHANGED <<otpStorage, now, calls, pending, stored, accepted>>
    \/ /\ branch = "required"
       /\ response' = Json(method, email, otp, 400, "error", RequiredError)
       /\ UNCHANGED <<otpStorage, now, calls, pending, stored, accepted>>
    \/ /\ branch = "verify"
       /\ Verify(email, otp, 0, FALSE)
       /\ LET r == verifyOtp(otpStorage, email, otp, now) IN
          response' = IF r.result = Success
                      THEN Json(method, email, otp, 200, "success", r.result)
                      ELSE Json(method, email, otp, 500, "error", r.result)
    \/ /\ branch = "issue"
       /\ \E k \in RandomValues :
            /\ Issue(email, k, 0, FALSE)
            /\ LET r == generateAndSendOtp(otpStorage, email, k, now) IN
               response' = IF r.result = Pending
                           THEN Awaiting(method, email, otp)
                           ELSE Json(method, email, otp, 500, "error", r.result)

\* the gateway answers; the handler resumes after its await and responds
HandleSettle(frame, gatewayOk) ==
    /\ SettleOlder(frame, gatewayOk)
    /\ LET r == generateAndSendOtpSettle(otpStorage, frame.email, frame.otp, gatewayOk) IN
       response' = IF r.result = Resolved
                   THEN Json("POST", frame.email, undefined, 200, "message", Acknowledgement)
                   ELSE Json("POST", frame.email, undefined, 500, "error", r.result)

NextHandler ==
    \/ \E method \in Methods, email \in BodyEmails, otp \in BodyOtps :
            Handle(method, email, otp) /\ UNCHANGED <<tasks, twin, guard, page, thread>>
    \/ \E frame \in BagToSet(pending), gatewayOk \in BOOLEAN :
            HandleSettle(frame, gatewayOk) /\ UNCHANGED <<tasks, twin, guard, page, thread>>
    \/ Tick /\ UNCHANGED aside

SpecHandler == Init /\ [][NextHandler]_vars

----------------------------------------------------------------------------
(* The routes of App and the comment form of ConsultationDetail *)

\* the variables of the one-time-password service
service == <<otpStorage, calls, pending, stored, accepted>>

\* what a route element returns
Spinner == "spinner"
Navigate == "navigate"
Layout == "layout"
Children == "children"

\* AuthGuard that waits for no session
AuthGuardIgnoresLoading(loading, user) ==
    IF user = null /\ ~loading THEN Navigate ELSE Layout

\* AuthGuard: the spinner while loading, a redirect without a user, else the
\* page inside Layout
AuthGuard(loading, user) ==
    IF loading THEN Spinner
    ELSE IF user = null THEN Navigate
    ELSE Layout

\* PublicRoute: the spinner while loading, a redirect with a user, else the page
PublicRoute(loading, user) ==
    IF loading THEN Spinner
    ELSE IF user # null THEN Navigate
    ELSE Children

\* the element of the route that matches path
Element(path, loading, user) ==
    IF path \in Protected THEN AuthGuard(loading, user) ELSE PublicRoute(loading, user)

\* App rendered
Rendered(path, loading, user) ==
    [path |-> path, loading |-> loading, user |-> user,
     view |-> Element(path, loading, user)]

\* the times at which a consultation can expire
Expiries == ClockValues \ {0}

\* isExpired as ConsultationDetail computes it while rendering at time t
isExpired(expires, t) == expires <= t

\* the comment form is part of what ConsultationDetail renders at time t:
\* the consultation is loaded and not expired, and somebody is signed in
FormShown(expires, t, user) ==
    /\ expires # 0
    /\ ~isExpired(expires, t)
    /\ user # null

\* ConsultationDetail after App rendered g at time t: mounted afresh, rendered
\* again, or unmounted
Detail(g, pg, t) ==
    IF g.path = DetailPath /\ g.view = Layout
    THEN IF pg.mounted
         THEN [pg EXCEPT !.shown = FormShown(pg.expires, t, g.user)]
         ELSE [Unmounted(pg.posted) EXCEPT !.mounted = TRUE]
    ELSE Unmounted(pg.posted)

\* useAuth reports another session state
AuthChange(loading, user) ==
    /\ <<loading, user>> # <<guard.loading, guard.user>>
    /\ guard' = Rendered(guard.path, loading, user)
    /\ page' = Detail(guard', page, now)
    /\ UNCHANGED <<now, thread>>

\* the browser goes to path
GoTo(path) ==
    /\ path # guard.path
    /\ guard' = Rendered(path, guard.loading, guard.user)
    /\ page' = Detail(guard', page, now)
    /\ UNCHANGED <<now, thread>>

\* the Navigate element that was rendered takes the browser to its target
Redirect ==
    /\ guard.view = Navigate
    /\ guard' = Rendered(IF guard.path \in Protected THEN "/auth" ELSE "/feed",
                         guard.loading, guard.user)
    /\ page' = Detail(guard', page, now)
    /\ UNCHANGED <<now, thread>>

\* fetchConsultation sets the consultation it loaded
LoadConsultation(expires) ==
    /\ page.mounted
    /\ page.expires = 0
    /\ page' = [page EXCEPT !.expires = expires,
                            !.shown = FormShown(expires, now, guard.user)]
    /\ UNCHANGED <<now, guard, thread>>

\* the user edits the text of the comment
Type(text) ==
    /\ page.shown
    /\ text # page.text
    /\ page' = [page EXCEPT !.text = text,
                            !.shown = FormShown(page.expires, now, guard.user)]
    /\ UNCHANGED <<now, guard, thread>>

\* handleSubmitComment, called by the form that is on the screen: the insert
\* it awaits succeeds or fails
handleSubmitComment(ok) ==
    /\ page.shown
    /\ page.text
    /\ guard.user # null
    /\ page' = [page EXCEPT
                    !.posted = IF ok
                               THEN [user |-> guard.user, at |-> now, expires |-> page.expires]
                               ELSE @,
                    !.text = IF ok THEN FALSE ELSE @,
                    !.shown = FormShown(page.expires, now, guard.user)]
    /\ UNCHANGED <<now, guard, thread>>

NextApp ==
    \/ \E loading \in BOOLEAN, user \in Users \cup {null} :
            AuthChange(loading, user) /\ UNCHANGED <<service, tasks, twin, response>>
    \/ \E path \in Paths : GoTo(path) /\ UNCHANGED <<service, tasks, twin, response>>
    \/ Redirect /\ UNCHANGED <<service, tasks, twin, response>>
    \/ \E expires \in Expiries :
            LoadConsultation(expires) /\ UNCHANGED <<service, tasks, twin, response>>
    \/ \E text \in BOOLEAN : Type(text) /\ UNCHANGED <<service, tasks, twin, response>>
    \/ \E ok \in BOOLEAN :
            handleSubmitComment(ok) /\ UNCHANGED <<service, tasks, twin, response>>
    \/ Tick /\ UNCHANGED aside

SpecApp == Init /\ [][NextApp]_vars

----------------------------------------------------------------------------
(* The comment list of ConsultationDetail: fetchComments and the realtime
   subscription of subscribeToComments, started together by the effect *)

\* the comments that are written while the page is open
CommentIds == {"c1", "c2"}

\* the elements of a sequence
Range(seq) == {seq[i] : i \in 1..Len(seq)}

\* the callback of the subscription: setComments(prev => [...prev, comment])
CallbackAppends(shown, id) == Append(shown, id)

\* the effect of the first render: fetchComments sends its query and
\* subscribeToComments asks for the channel
Mount ==
    /\ thread.fetch = "idle"
    /\ thread' = [thread EXCEPT !.fetch = "querying"]
    /\ UNCHANGED <<now, guard, page>>

\* the backend has joined the channel: INSERTs are notified from now on
Subscribed ==
    /\ thread.fetch # "idle"
    /\ ~thread.active
    /\ thread' = [thread EXCEPT !.active = TRUE]
    /\ UNCHANGED <<now, guard, page>>

\* somebody inserts comment id; the backend notifies the channels it has joined
InsertComment(id) ==
    /\ id \notin Range(thread.server)
    /\ thread' = [thread EXCEPT
                    !.server = Append(@, id),
                    !.notified = IF thread.active THEN @ \cup {id} ELSE @]
    /\ UNCHANGED <<now, guard, page>>

\* the backend answers the query of fetchComments with the comments it holds
FetchRead ==
    /\ thread.fetch = "querying"
    /\ thread' = [thread EXCEPT !.fetch = "read", !.snapshot = thread.server]
    /\ UNCHANGED <<now, guard, page>>

\* fetchComments resumes with the answer: an error ends it, no comment sets
\* the empty list, otherwise it asks for the profiles
FetchData(ok) ==
    /\ thread.fetch = "read"
    /\ thread' = IF ~ok THEN [thread EXCEPT !.fetch = "failed"]
                 ELSE IF thread.snapshot = <<>>
                      THEN [thread EXCEPT !.fetch = "done", !.comments = <<>>]
                      ELSE [thread EXCEPT !.fetch = "profiles"]
    /\ UNCHANGED <<now, guard, page>>

\* fetchComments resumes with the profiles: setComments(commentsWithProfiles)
FetchSet ==
    /\ thread.fetch = "profiles"
    /\ thread' = [thread EXCEPT !.fetch = "done", !.comments = thread.snapshot]
    /\ UNCHANGED <<now, guard, page>>

\* the callback of the subscription, run for the notification of comment id:
\* it reads the comment and its profile and appends it, or returns on an error
Callback(id, ok) ==
    /\ id \in thread.notified
    /\ thread' = [thread EXCEPT
                    !.notified = @ \ {id},
                    !.failed = IF ok THEN @ ELSE @ \cup {id},
                    !.comments = IF ok THEN CallbackAppends(@, id) ELSE @]
    /\ UNCHANGED <<now, guard, page>>

NextComments ==
    \/ Mount /\ UNCHANGED <<service, tasks, twin, response>>
    \/ Subscribed /\ UNCHANGED <<service, tasks, twin, response>>
    \/ \E id \in CommentIds : InsertComment(id) /\ UNCHANGED <<service, tasks, twin, response>>
    \/ FetchRead /\ UNCHANGED <<service, tasks, twin, response>>
    \/ \E ok \in BOOLEAN : FetchData(ok) /\ UNCHANGED <<service, tasks, twin, response>>
    \/ FetchSet /\ UNCHANGED <<service, tasks, twin, response>>
    \/ \E id \in CommentIds, ok \in BOOLEAN :
            Callback(id, ok) /\ UNCHANGED <<service, tasks, twin, response>>

SpecComments == Init /\ [][NextComments]_vars

----------------------------------------------------------------------------
(* Properties of the service *)

Allowed(email) == endsWith(email, GmailSuffix)

\* call is a call of generateAndSendOtp(email) that generated otp and stored it
IssuedCall(call, email, otp) ==
    /\ call.op = IssueOp
    /\ call.email = email
    /\ call.otp = otp
    /\ call.result \in {Pending, Resolved, DeliveryError}

\* call is a call of verifyOtp(email, otp) that ended in result
VerifiedCall(call, email, otp, result) ==
    /\ call.op = VerifyOp
    /\ call.email = email
    /\ call.otp = otp
    /\ call.result = result

\* the mapping holds a record for email whose validity window has not passed
Live(email) == email \in DOMAIN otpStorage /\ now <= otpStorage[email].expiry

\* this step is a call of verifyOtp(last'.email, last'.otp)
VerifyStep == last'.op = VerifyOp /\ VerifyCall(last'.email, last'.otp)
SeqVerifyStep == last'.op = VerifyOp /\ SeqVerify(last'.email, last'.otp)

\* this step is a call of generateAndSendOtp(last'.email)
IssueStep == last'.op = IssueOp /\ \E k \in RandomValues : IssueCall(last'.email, k)

\* C1: verifyOtp(email, otp) returns true only when, at the call, the mapping
\* holds a record for email whose code is otp and whose expiry has not passed
C1_SuccessOnlyOnLiveMatch ==
    [][(last'.result = Success /\ VerifyStep)
        => /\ last'.email \in DOMAIN otpStorage
           /\ otpStorage[last'.email].otp = last'.otp
           /\ now <= otpStorage[last'.email].expiry]_vars

\* a verifyOtp call has just returned true
C1_Witness ==
    /\ last.op = VerifyOp
    /\ last.result = Success

\* C2: right after generateAndSendOtp(email) stored otp for an allowed email
\* (no call in between, window not passed), verifyOtp(email, otp) returns true
\* and removes the record; right after that success a second
\* verifyOtp(email, otp) fails with NotFoundError
C2_IssueVerifyOnce ==
    [][/\ (Allowed(last.email) /\ IssuedCall(last, last.email, last.otp))
            => (last.email \in DOMAIN otpStorage /\ otpStorage[last.email].otp = last.otp)
       /\ (Allowed(last.email) /\ IssuedCall(last, last'.email, last'.otp)
            /\ Live(last.email) /\ VerifyStep)
            => (last'.result = Success /\ last.email \notin DOMAIN otpStorage')
       /\ (Allowed(last.email) /\ VerifiedCall(last, last'.email, last'.otp, Success)
            /\ VerifyStep)
            => last'.result = NotFoundError]_vars

\* an issue, then a successful verify, then a second verify that found nothing
C2_Witness ==
    \E email \in Callers, otp \in Candidates :
        /\ Allowed(email)
        /\ VerifiedCall(prev, email, otp, Success)
        /\ VerifiedCall(last, email, otp, NotFoundError)

\* C3: for every subject, the calls of verifyOtp that returned true never
\* outnumber the calls of generateAndSendOtp that stored a record
C3_AcceptedAtMostStored ==
    \A email \in Emails : accepted[email] <= stored[email]

\* every record stored so far has been accepted, one of the subjects twice
C3_Witness ==
    /\ \E email \in Emails : accepted[email] = 2
    /\ \A email \in Emails : accepted[email] = stored[email]

\* C4: verifyOtp on a record whose expiry has passed fails with ExpiredError
\* for every candidate, the stored code included: never true, never MismatchError
C4_ExpiredWhateverTheCode ==
    [][(last'.email \in DOMAIN otpStorage /\ otpStorage[last'.email].expiry < now
            /\ VerifyStep)
        => last'.result = ExpiredError]_vars

\* the code just issued was presented after the window and found expired
C4_Witness ==
    \E email \in Callers, otp \in Candidates :
        /\ IssuedCall(prev, email, otp)
        /\ VerifiedCall(last, email, otp, ExpiredError)

\* C5 as claimed: after two issues in succession that generated c1 and then c2
\* (window not passed), verifyOtp(email, c1) fails with MismatchError and
\* verifyOtp(email, c2) returns true
C5_AsClaimed ==
    [][(Allowed(last.email) /\ IssuedCall(prev, last.email, prev.otp)
            /\ IssuedCall(last, last'.email, last.otp) /\ Live(last.email)
            /\ SeqVerifyStep)
        => /\ last'.otp = prev.otp => last'.result = MismatchError
           /\ last'.otp = last.otp => last'.result = Success]_vars

\* C5: after two issues in succession that generated c1 and then a different c2
\* (window not passed), verifyOtp(email, c1) fails with MismatchError and leaves
\* the record, and verifyOtp(email, c2) returns true, also right after that
\* failed attempt; when the two codes are equal, verifyOtp(email, c1) returns true
C5_SecondIssueInvalidatesFirst ==
    [][/\ (Allowed(last.email) /\ IssuedCall(prev, last.email, prev.otp)
            /\ IssuedCall(last, last'.email, last.otp) /\ Live(last.email)
            /\ SeqVerifyStep)
            => /\ (last'.otp = prev.otp /\ prev.otp # last.otp)
                    => (last'.result = MismatchError /\ otpStorage' = otpStorage)
               /\ last'.otp = last.otp => last'.result = Success
       /\ (Allowed(last.email) /\ IssuedCall(prev2, last.email, prev2.otp)
            /\ IssuedCall(prev, last.email, last'.otp)
            /\ VerifiedCall(last, last'.email, prev2.otp, MismatchError)
            /\ Live(last.email) /\ SeqVerifyStep)
            => last'.result = Success]_vars

\* two issues with different codes, then the first code was refused
C5_Witness ==
    \E email \in Callers, c1 \in Codes, c2 \in Codes :
        /\ c1 # c2
        /\ IssuedCall(prev2, email, c1)
        /\ IssuedCall(prev, email, c2)
        /\ VerifiedCall(last, email, c1, MismatchError)

\* C6 as claimed: the first verifyOtp after a record was stored removes the
\* record, whatever its outcome
C6_AsClaimed ==
    [][(IssuedCall(last, last'.email, last.otp) /\ VerifyStep)
        => last.email \notin DOMAIN otpStorage']_vars

\* C6: the first verifyOtp after a record was stored removes the record when
\* it returns true or fails with ExpiredError, and leaves the mapping as it was
\* when it fails with MismatchError; it ends in no other way
C6_FirstAttemptRemovesUnlessMismatch ==
    [][(IssuedCall(last, last'.email, last.otp) /\ VerifyStep)
        => /\ last'.result \in {Success, ExpiredError, MismatchError}
           /\ last'.result \in {Success, ExpiredError}
                => last.email \notin DOMAIN otpStorage'
           /\ last'.result = MismatchError => otpStorage' = otpStorage]_vars

\* the first attempt after an issue used a wrong code and the record is still stored
C6_Witness ==
    \E email \in Callers, c \in Codes, otp \in Candidates :
        /\ IssuedCall(prev, email, c)
        /\ VerifiedCall(last, email, otp, MismatchError)
        /\ email \in DOMAIN otpStorage
        /\ otpStorage[email].otp = c

\* C7: verifyOtp with a wrong code on an unexpired record fails with
\* MismatchError and leaves the mapping as it was; after two wrong guesses in a
\* row, verifyOtp with the stored code inside the window still returns true
C7_MismatchKeepsRecord ==
    [][/\ (Live(last'.email) /\ otpStorage[last'.email].otp # last'.otp /\ VerifyStep)
            => (last'.result = MismatchError /\ otpStorage' = otpStorage)
       /\ (Live(last'.email) /\ otpStorage[last'.email].otp = last'.otp
            /\ prev.op = VerifyOp /\ prev.email = last'.email
            /\ prev.result = MismatchError
            /\ last.op = VerifyOp /\ last.email = last'.email
            /\ last.result = MismatchError
            /\ VerifyStep)
            => last'.result = Success]_vars

\* a wrong guess for a subject that has a record, then the right code accepted
C7_Witness ==
    \E email \in Callers, wrong \in Candidates, otp \in Candidates :
        /\ Allowed(email)
        /\ VerifiedCall(prev, email, wrong, MismatchError)
        /\ VerifiedCall(last, email, otp, Success)

\* C8 as claimed: verifyOtp for a subject that has no stored record fails with
\* NotFoundError and leaves the mapping as it was
C8_AsClaimed ==
    [][(last'.email \notin DOMAIN otpStorage /\ VerifyStep)
        => (last'.result = NotFoundError /\ otpStorage' = otpStorage)]_vars

\* C9: generateAndSendOtp for a subject that does not end in the accepted
\* suffix fails with InvalidSubjectError, leaves the mapping as it was, leaves
\* no record for the subject and starts no gateway request
C9_RejectedBeforeAnyChange ==
    [][(~Allowed(last'.email) /\ IssueStep)
        => /\ last'.result = InvalidSubjectError
           /\ otpStorage' = otpStorage
           /\ last'.email \notin DOMAIN otpStorage'
           /\ InFlight' = InFlight]_vars

\* a subject of another domain was rejected while a record was stored
C9_Witness ==
    /\ last.op = IssueOp
    /\ last.email = "user@example.com"
    /\ last.result = InvalidSubjectError
    /\ DOMAIN otpStorage # {}

\* C10: when the gateway request of a call fails, the call fails with
\* DeliveryError and the mapping stays as it was; right after such a call
\* (window not passed), verifyOtp with the code it stored returns true
C10_DeliveryFailureKeepsRecord ==
    [][/\ \A i \in 1..Len(calls) :
            SettleListed(i, FALSE)
                => (calls'[i].result = DeliveryError /\ otpStorage' = otpStorage)
       /\ \A frame \in BagToSet(pending) :
            SettleOlder(frame, FALSE) => otpStorage' = otpStorage
       /\ (last.op = IssueOp /\ last.email = last'.email /\ last.otp = last'.otp
            /\ last.result = DeliveryError /\ Live(last.email)
            /\ VerifyStep)
            => last'.result = Success]_vars

\* a call whose delivery failed, and the code it stored accepted by the next call
C10_Witness ==
    \E email \in Callers, otp \in Candidates :
        /\ prev.op = IssueOp /\ prev.email = email /\ prev.otp = otp
        /\ prev.result = DeliveryError
        /\ VerifiedCall(last, email, otp, Success)

\* C11: the mapping holds one entry per subject at most, and
\* generateAndSendOtp for a subject that has a record replaces it: afterwards
\* the subjects that have a record are the same, the subject's record holds the
\* new code and the new expiry, and every other record is as it was
C11_IssueReplacesRecord ==
    [][(Allowed(last'.email) /\ last'.email \in DOMAIN otpStorage /\ IssueStep)
        => /\ DOMAIN otpStorage' = DOMAIN otpStorage
           /\ otpStorage'[last'.email] =
                [otp |-> last'.otp, expiry |-> now + OTP_EXPIRY_TIME]
           /\ \A e \in DOMAIN otpStorage \ {last'.email} :
                otpStorage'[e] = otpStorage[e]]_vars

\* two issues in a row for one subject with different codes, at different
\* times: the record is the second one's
C11_Witness ==
    /\ IssuedCall(prev, last.email, prev.otp)
    /\ IssuedCall(last, last.email, last.otp)
    /\ prev.otp # last.otp
    /\ now > 0
    /\ otpStorage[last.email] = [otp |-> last.otp, expiry |-> now + OTP_EXPIRY_TIME]

\* C13: verifyOtp on a record whose expiry has passed removes the record and
\* fails with ExpiredError; the next verifyOtp for that subject, with no call in
\* between, fails with NotFoundError
C13_ExpiredRecordDiscarded ==
    [][/\ (last'.email \in DOMAIN otpStorage /\ otpStorage[last'.email].expiry < now
            /\ VerifyStep)
            => (last'.result = ExpiredError /\ last'.email \notin DOMAIN otpStorage')
       /\ (last.op = VerifyOp /\ last.result = ExpiredError
            /\ last'.email = last.email /\ VerifyStep)
            => last'.result = NotFoundError]_vars

\* a verify that found the record expired, then one that found no record
C13_Witness ==
    /\ prev.op = VerifyOp /\ prev.result = ExpiredError
    /\ last.op = VerifyOp /\ last.email = prev.email
    /\ last.result = NotFoundError

\* C17: generateAndSendOtp for an allowed subject stores a record from any
\* state of that subject (no record, a live record, a record whose expiry has
\* passed): the record holds the new code and expires OTP_EXPIRY_TIME after the
\* time of the call, and verifyOtp with the new code at that same time returns
\* true
C17_IssueEntersIssued ==
    [][/\ (Allowed(last'.email) /\ IssueStep)
            => otpStorage'[last'.email] =
                 [otp |-> last'.otp, expiry |-> now + OTP_EXPIRY_TIME]
       /\ (IssuedCall(last, last'.email, last'.otp)
            /\ otpStorage[last'.email].expiry = now + OTP_EXPIRY_TIME
            /\ VerifyStep)
            => last'.result = Success]_vars

\* an issue made after the window of any record stored at time 0 had passed,
\* then a verify with its code that returned true
C17_Witness ==
    /\ now > OTP_EXPIRY_TIME
    /\ IssuedCall(prev, prev.email, last.otp)
    /\ VerifiedCall(last, prev.email, prev.otp, Success)

PairVerifyStep == last'.op = VerifyOp /\ PairVerify(last'.email, last'.otp)

\* C16: verifyOtp starts no gateway request and settles none, on any of its
\* paths, and changes nothing but the mapping entry of its own subject: every
\* other subject's entry and the clock are as they were
C16_VerifyTouchesOwnEntryOnly ==
    [][PairVerifyStep
        => /\ pending' (+) FramesOf(calls') = pending (+) FramesOf(calls)
           /\ \A e \in Emails \ {last'.email} :
                Lookup(otpStorage', e) = Lookup(otpStorage, e)
           /\ now' = now]_vars

\* a verify that removed its subject's record while another subject had a
\* record and a gateway request was in flight
C16_Witness ==
    /\ last.op = VerifyOp /\ last.result \in {Success, ExpiredError}
    /\ last.email \notin DOMAIN otpStorage
    /\ DOMAIN otpStorage # {}
    /\ InFlight > 0

\* every character of s is a decimal digit
Numeric(s) == \A i \in 1..Len(s) : \E d \in 1..10 : SubSeq(s, i, i) = Digit[d]

\* the number a numeric string denotes
RECURSIVE Number(_)
Number(s) ==
    IF s = "" THEN 0
    ELSE 10 * Number(SubSeq(s, 1, Len(s) - 1))
         + (CHOOSE d \in 0..9 : SubSeq(s, Len(s), Len(s)) = Digit[d + 1])

\* C12: every code generateOtp produces is a string of exactly 6 decimal digits
\* that denotes a number from 100000 to 999999, whatever value below 1
\* Math.random() returned
C12_SixDigitCode ==
    \A i \in 1..Len(calls) :
        calls[i].op = GenerateOp
            => /\ Len(calls[i].otp) = 6
               /\ Numeric(calls[i].otp)
               /\ Number(calls[i].otp) >= 100000
               /\ Number(calls[i].otp) <= 999999

\* the largest value of Math.random() sampled gave the top of the range
C12_Witness == last.op = GenerateOp /\ last.otp = "999999"

\* C14: the statements of two calls that work on one subject's record never
\* interleave.  While a verifyOtp call is between its lookup and its delete
\* the mapping still holds what it read (no other verify has removed the
\* record, no issue has replaced it), and when two verifyOtp calls for the
\* subject both start after the record was stored and both carry its code
\* within its window, exactly one returns true and the other fails with
\* NotFoundError
C14_RecordAccessExclusive ==
    /\ \A v \in VerifyTasks :
            tasks[v].pc \in {"looked", "expired", "matched"}
                => tasks[v].record = Lookup(otpStorage, tasks[v].email)
    /\ \A v, w \in VerifyTasks, i \in IssueTasks :
            (/\ v # w
             /\ tasks[v].pc = "done" /\ tasks[w].pc = "done"
             /\ tasks[v].after /\ tasks[w].after
             /\ tasks[v].otp = tasks[i].otp /\ tasks[w].otp = tasks[i].otp
             /\ now <= tasks[i].expiry)
                => {tasks[v].result, tasks[w].result} = {Success, NotFoundError}

\* both verifyOtp calls were made with the stored code, both requested while
\* the gateway request of the issue was still awaited; one got true, the other
\* NotFoundError
C14_Witness ==
    /\ tasks["issue"].pc = "awaiting"
    /\ tasks["verify1"].after /\ tasks["verify2"].after
    /\ tasks["verify1"].otp = tasks["issue"].otp
    /\ tasks["verify2"].otp = tasks["issue"].otp
    /\ tasks["verify1"].result = NotFoundError
    /\ tasks["verify2"].result = Success

\* C15 as claimed: with a background sweeper of expired records every call
\* ends as it does without one, same outcome and same error
C15_AsClaimed == twin.result = last.result

\* C15: with a background sweeper of expired records every call ends as it
\* does without one, except that verifyOtp for a record the sweeper has
\* removed fails with NotFoundError where it fails with ExpiredError without
\* the sweeper; the records whose expiry has not passed are the same in both
C15_SweeperChangesExpiredToNotFound ==
    /\ \/ twin.result = last.result
       \/ /\ last.op = VerifyOp
          /\ last.result = ExpiredError
          /\ twin.result = NotFoundError
    /\ \A e \in DOMAIN twin.storage :
            e \in DOMAIN otpStorage /\ twin.storage[e] = otpStorage[e]
    /\ \A e \in DOMAIN otpStorage \ DOMAIN twin.storage : otpStorage[e].expiry < now

\* a verify of a record that the sweeper had removed
C15_Witness ==
    /\ last.op = VerifyOp
    /\ last.result = ExpiredError
    /\ twin.result = NotFoundError

\* this step is handler(req, res) run for the request that response' names
HandleStep ==
    /\ response'.method \in Methods
    /\ Handle(response'.method, response'.email, response'.otp)

\* C18: the handler routes a POST by its body.  With a subject and no code it
\* calls generateAndSendOtp, and answers with the acknowledgement once the
\* gateway request has succeeded; with a subject and a code it calls verifyOtp
\* and never generateAndSendOtp: no gateway request starts and no subject gets
\* a record or another record
C18_RoutesByBody ==
    [][/\ (HandleStep /\ response'.method = "POST" /\ Truthy(response'.email)
                /\ ~Truthy(response'.otp))
            => /\ \E k \in RandomValues : Issue(response'.email, k, 0, FALSE)
               /\ Allowed(response'.email) => response'.status = 0
       /\ (HandleStep /\ response'.method = "POST" /\ Truthy(response'.email)
                /\ Truthy(response'.otp))
            => /\ Verify(response'.email, response'.otp, 0, FALSE)
               /\ pending' = pending
               /\ \A e \in DOMAIN otpStorage' :
                    e \in DOMAIN otpStorage /\ otpStorage'[e] = otpStorage[e]
       /\ (InFlight' < InFlight /\ response'.status = 200)
            => response'.key = "message" /\ response'.value = Acknowledgement
       /\ \A frame \in BagToSet(pending) :
            HandleSettle(frame, TRUE)
                => response' = Json("POST", frame.email, undefined, 200, "message",
                                    Acknowledgement)]_vars

\* an issue request was acknowledged and its record is in the mapping, then a
\* request with a code was answered
C18_Witness ==
    /\ response.method = "POST"
    /\ Truthy(response.otp)
    /\ response.status = 200
    /\ response.email \notin DOMAIN otpStorage
    /\ InFlight = 0

\* C19 as claimed: every POST with a subject and a code is answered with a
\* boolean success indicator, whatever verifyOtp ended in
C19_AsClaimed ==
    [][(HandleStep /\ response'.method = "POST" /\ Truthy(response'.email)
            /\ Truthy(response'.otp))
        => /\ response'.key = "success"
           /\ response'.value \in {"true", "false"}]_vars

\* C20: a request whose method is not POST is answered 405 with Allow: POST;
\* neither generateAndSendOtp nor verifyOtp runs, the mapping and the gateway
\* requests in flight are as they were
C20_OtherMethodsRejected ==
    [][(HandleStep /\ response'.method # "POST")
        => /\ response'.status = 405
           /\ response'.allow = <<"POST">>
           /\ response'.key = "error"
           /\ UNCHANGED <<otpStorage, pending, calls, now>>]_vars

\* a GET carrying the subject and the stored code was answered 405 and the
\* record is still there
C20_Witness ==
    /\ response.method = "GET"
    /\ response.status = 405
    /\ response.email \in DOMAIN otpStorage
    /\ response.otp = otpStorage[response.email].otp

\* the five errors the service throws
FailureKinds ==
    {InvalidSubjectError, DeliveryError, NotFoundError, ExpiredError, MismatchError}

\* C21: no failure is swallowed and the five kinds of failure are pairwise
\* distinguishable: the five error values differ from each other, from true
\* and from the acknowledgement, and each failing path answers 500 with the
\* error value of its own kind: an address that is not allowed, a gateway
\* failure, no record, a record whose expiry has passed, a code that differs
C21_FailuresDistinguishable ==
    [][/\ Cardinality(FailureKinds \cup {Success, Acknowledgement}) = 7
       /\ (HandleStep /\ route(response'.method, response'.email, response'.otp) = "verify")
            => LET record == Lookup(otpStorage, response'.email)
                   kind == IF record.kind = "undefined" THEN NotFoundError
                           ELSE IF record.expiry < now THEN ExpiredError
                           ELSE IF record.otp # response'.otp THEN MismatchError
                           ELSE Success
               IN  /\ response'.value = kind
                   /\ kind # Success => response'.status = 500 /\ response'.key = "error"
       /\ (HandleStep /\ route(response'.method, response'.email, response'.otp) = "issue"
                /\ ~Allowed(response'.email))
            => /\ response'.status = 500 /\ response'.key = "error"
               /\ response'.value = InvalidSubjectError
       /\ \A frame \in BagToSet(pending) :
            HandleSettle(frame, FALSE)
                => /\ response'.status = 500 /\ response'.key = "error"
                   /\ response'.value = DeliveryError]_vars

\* a request was answered with the error of an expired record
C21_Witness ==
    /\ response.status = 500
    /\ response.key = "error"
    /\ response.value = ExpiredError

\* C22: nothing is retried: a call of generateAndSendOtp for an allowed
\* subject makes one gateway request, made when it reaches sendOtp, and when
\* the gateway has answered, with success or with failure, the call has ended
\* (with DeliveryError on failure) and no request of it is in flight
C22_OneDispatchPerIssue ==
    \A i \in IssueTasks :
        LET frame == tasks[i]
            request == SetToBag({[email |-> frame.email, otp |-> frame.otp]})
        IN  /\ frame.pc \in {"idle", "generated", "stored"}
                => frame.sent = 0 /\ pending = EmptyBag
            /\ frame.pc = "awaiting" => frame.sent = 1 /\ pending = request
            /\ frame.pc = "done"
                => /\ pending = EmptyBag
                   /\ frame.result \in {InvalidSubjectError, Resolved, DeliveryError}
                   /\ frame.sent = IF frame.result = InvalidSubjectError THEN 0 ELSE 1

\* the call ended with DeliveryError after its one request
C22_Witness ==
    /\ tasks["issue"].pc = "done"
    /\ tasks["issue"].result = DeliveryError
    /\ tasks["issue"].sent = 1

\* C25: in every call of generateAndSendOtp the record is written before the
\* gateway is asked: at the step that starts the gateway request the mapping
\* already holds the record of this call, and the message posted carries the
\* code of that record, sent to the record's subject
C25_StoreBeforeDispatch ==
    [][\A i \in IssueTasks :
        (tasks[i].pc = "stored" /\ IssueSend(i))
            => LET sent == pending' (-) pending
                   frame == CHOOSE f \in BagToSet(sent) : TRUE
               IN  /\ BagCardinality(sent) = 1
                   /\ frame.email \in DOMAIN otpStorage
                   /\ otpStorage[frame.email] =
                        [otp |-> tasks[i].otp, expiry |-> tasks[i].expiry]
                   /\ GatewayRequest(frame).numbers = frame.email
                   /\ GatewayRequest(frame).message
                        = "Your OTP is " \o otpStorage[frame.email].otp
                            \o ". It is valid for 5 minutes."
                   /\ SubSeq(GatewayRequest(frame).message, 13, 18)
                        = otpStorage[frame.email].otp]_vars

\* the gateway request is in flight and the record with its code is stored
C25_Witness ==
    /\ tasks["issue"].pc = "awaiting"
    /\ BagIn([email |-> tasks["issue"].email, otp |-> tasks["issue"].otp], pending)
    /\ otpStorage[tasks["issue"].email].otp = tasks["issue"].otp

\* C23: a stored record changes only through its own subject.  Whenever the
\* record of a subject is different after a step, the step is a call of
\* generateAndSendOtp for that subject, and whenever it is gone after a step,
\* the step is a call of verifyOtp for that subject; calls for other subjects,
\* gateway answers and the passage of time leave its code and expiry as they
\* were
C23_RecordChangesThroughOwnSubject ==
    [][\A e \in DOMAIN otpStorage :
        /\ (e \in DOMAIN otpStorage' /\ otpStorage'[e] # otpStorage[e])
                => \E k \in RandomValues : PairIssue(e, k)
        /\ e \notin DOMAIN otpStorage'
                => PairVerifyStep /\ last'.email = e
        /\ now' # now => (e \in DOMAIN otpStorage' /\ otpStorage'[e] = otpStorage[e])]_vars

\* both subjects have records, one of them past its expiry and untouched since
\* the other subject's last call
C23_Witness ==
    /\ DOMAIN otpStorage = Subjects
    /\ \E e \in Subjects :
        /\ otpStorage[e].expiry < now
        /\ last.email # e
        /\ last.op \in {IssueOp, VerifyOp}

\* C24: the validity window includes its end.  When verifyOtp tests a record
\* it has read against the code stored in it, it goes on to delete the record
\* and return true at any time now <= expiry, now = expiry included, and it
\* goes on to delete the record and throw ExpiredError at any time now > expiry
C24_WindowIncludesItsEnd ==
    [][\A v \in VerifyTasks :
        /\ (tasks[v].pc = "looked" /\ tasks[v].record.kind = "own"
                /\ tasks[v].record.otp = tasks[v].otp /\ VerifyTest(v))
            => tasks'[v].pc = IF now <= tasks[v].record.expiry THEN "matched"
                              ELSE "expired"
        /\ (tasks[v].pc = "matched" /\ VerifyDelete(v))
            => tasks'[v].result = Success /\ tasks[v].email \notin DOMAIN otpStorage'
        /\ (tasks[v].pc = "expired" /\ VerifyDelete(v))
            => tasks'[v].result = ExpiredError]_vars

\* a verifyOtp call with the stored code has passed the expiry test at the
\* very millisecond of the expiry
C24_Witness ==
    \E v \in VerifyTasks :
        /\ tasks[v].pc = "matched"
        /\ tasks[v].record.expiry = now

\* C26: when a second generateAndSendOtp call for a subject stores its record
\* while the gateway request of a first one is still in flight, the mapping
\* holds the second call's record, and it still holds that record, unaltered,
\* after each gateway answer, success or failure, whichever request it answers
C26_LastStoreWins ==
    [][/\ (Allowed(last'.email) /\ InFlight > 0 /\ IssueStep)
            => otpStorage'[last'.email] =
                 [otp |-> last'.otp, expiry |-> now + OTP_EXPIRY_TIME]
       /\ InFlight' < InFlight => otpStorage' = otpStorage]_vars

\* two calls for one subject with different codes overlap: both still await
\* the gateway, and the record is the later one's
C26_Witness ==
    /\ IssuedCall(prev, last.email, prev.otp)
    /\ prev.result = Pending
    /\ IssuedCall(last, last.email, last.otp)
    /\ last.result = Pending
    /\ prev.otp # last.otp
    /\ otpStorage[last.email].otp = last.otp

\* C30: AuthGuard shows a protected page only when loading is over and a user is
\* present: on a protected route the page is rendered inside Layout exactly
\* then, only the spinner is rendered while loading, and without a user once
\* loading is over the element is the redirect to /auth and the page is not
\* rendered
C30_GuardedPages ==
    /\ [](guard.path \in Protected =>
            /\ guard.view = Layout <=> (~guard.loading /\ guard.user # null)
            /\ guard.loading => guard.view = Spinner
            /\ (~guard.loading /\ guard.user = null) => guard.view = Navigate)
    /\ [](page.mounted => (guard.path = DetailPath /\ ~guard.loading /\ guard.user # null))
    /\ [][(guard.path \in Protected /\ guard.view = Navigate /\ Redirect)
            => guard'.path = "/auth"]_vars

\* the consultation page is asked for after the user who commented there has
\* signed out: the element is the redirect and the page is not rendered
C30_Witness ==
    /\ guard.path = DetailPath
    /\ ~guard.loading
    /\ guard.user = null
    /\ guard.view = Navigate
    /\ ~page.mounted
    /\ page.posted # NoInsert

\* C27: every comment that handleSubmitComment inserted was submitted before
\* the consultation expired
C27_NoInsertAfterExpiry ==
    page.posted # NoInsert => page.posted.at < page.posted.expires

\* C28: the comment list shown holds every comment at most once
C28_NoDuplicateComment ==
    \A i, j \in 1..Len(thread.comments) :
        thread.comments[i] = thread.comments[j] => i = j

\* the page has settled: the comments were fetched, the channel is joined and
\* no notification is being handled
Settled ==
    /\ thread.fetch = "done"
    /\ thread.active
    /\ thread.notified = {}

\* C29: once the page has settled, every comment written since it was opened
\* is in the list shown, unless the callback failed to read it
C29_NoCommentLost ==
    Settled => Range(thread.server) \ thread.failed \subseteq Range(thread.comments)

====
